---- MODULE Spec2Model ----
(***************************************************************************)
(* Model of the bus tracking backend (backend/server.js): the in-memory    *)
(* location store busLocations, the route registry busRoutes, the ingest   *)
(* handler POST /api/locations, the read handlers, the search handler and  *)
(* the simulation timer started by simulateBusMovement.                    *)
(*                                                                         *)
(* Node runs every handler and every timer callback to completion on one   *)
(* thread, so each handler is one atomic action.                           *)
(* The live tracking page of the client (LiveTrackingPage) is modelled by  *)
(* its state and the handling of its poll responses.                       *)
(*                                                                         *)
(* JavaScript numbers are modelled as records [k, v]: k = "fin" with v the *)
(* value in fixed point (Scale units per 1.0), or k = "nan", "inf", "ninf" *)
(* for NaN, Infinity and -Infinity (v = 0).  Strings that are parsed are   *)
(* sequences of one-character strings.                                     *)
(***************************************************************************)
EXTENDS Integers, Sequences, FiniteSets, TLC

VARIABLES busRoutes, busLocations, insertion, now, listening, timers, nextFire, ops, advances, last, hist, ingestSpeed,
          mounted, currentLocation, lastUpdate, effectLocation, markerRef

vars == <<busRoutes, busLocations, insertion, now, listening, timers, nextFire, ops, advances, last, hist, ingestSpeed,
         mounted, currentLocation, lastUpdate, effectLocation, markerRef>>

\* the variables of the live tracking page
pageVars == <<mounted, currentLocation, lastUpdate, effectLocation, markerRef>>

\* busRoutes     the Map of routes, as the sequence of its values in iteration order
\* busLocations  the Map of location records, as a function from its keys
\* insertion     the keys of busLocations in the order the Map iterates them
\* now           the system clock, in milliseconds since the process started
\* listening     app.listen's callback has run
\* timers        number of interval timers started
\* nextFire      earliest time the interval callback runs next
\* ops, advances counters that bound the exploration
\* last          the last request handled (or timer callback run) and its response
\* hist          per key of busLocations: who wrote the record last ("seed",
\*               "ingest" or "tick") and how many ingests were accepted for it
\* ingestSpeed   per vehicle id: the parsed speed of the most recent accepted
\*               ingest for it
\*
\* The live tracking page (LiveTrackingPage) of one browser:
\* mounted         the page is shown and its polling effect has run
\* currentLocation the state the page displays the position from
\* lastUpdate      the state the page displays the update time from
\* effectLocation  the currentLocation that the closure of the polling effect
\*                 holds: the effect runs again only when bus.id or backendUrl
\*                 changes, so updateLocation keeps reading this value
\* markerRef       the position of the bus marker on the map, if there is one

(***************************************************************************)
(* Bounds of the model.                                                    *)
(***************************************************************************)
\* number of store writes (accepted ingests and timer callbacks) in one behaviour
MaxOps == 2
\* number of clock advances in one behaviour
MaxAdvances == 2

(***************************************************************************)
(* JavaScript numbers.                                                     *)
(***************************************************************************)
Scale == 10^6

Fin(v) == [k |-> "fin", v |-> v]
NaN == [k |-> "nan", v |-> 0]
PosInf == [k |-> "inf", v |-> 0]
NegInf == [k |-> "ninf", v |-> 0]

isNaN(x) == x.k = "nan"
isFinite(x) == x.k = "fin"

\* a + b
NumAdd(a, b) ==
  IF isNaN(a) \/ isNaN(b) THEN NaN
  ELSE IF a.k = "fin" /\ b.k = "fin" THEN Fin(a.v + b.v)
  ELSE IF a.k = "fin" THEN b
  ELSE IF b.k = "fin" THEN a
  ELSE IF a.k = b.k THEN a
  ELSE NaN

\* -a
NumNeg(a) ==
  CASE a.k = "fin" -> Fin(0 - a.v)
    [] a.k = "inf" -> NegInf
    [] a.k = "ninf" -> PosInf
    [] OTHER -> NaN

\* a - b
NumSub(a, b) == NumAdd(a, NumNeg(b))

\* a > b
NumGT(a, b) ==
  /\ ~isNaN(a)
  /\ ~isNaN(b)
  /\ CASE a.k = "fin" /\ b.k = "fin" -> a.v > b.v
       [] a.k = "inf" -> b.k # "inf"
       [] a.k = "ninf" -> FALSE
       [] OTHER -> b.k = "ninf"

\* a <= b
NumLE(a, b) == ~isNaN(a) /\ ~isNaN(b) /\ ~NumGT(a, b)

\* a === b on numbers
NumEq(a, b) == ~isNaN(a) /\ ~isNaN(b) /\ a = b

\* Math.max(a, b)
MathMax(a, b) ==
  IF isNaN(a) \/ isNaN(b) THEN NaN
  ELSE IF NumGT(a, b) THEN a ELSE b

\* Math.abs(a)
MathAbs(a) == IF NumGT(Fin(0), a) THEN NumNeg(a) ELSE a

\* ToBoolean on a number: NaN and 0 are falsy
NumTruthy(x) == ~isNaN(x) /\ x # Fin(0)

(***************************************************************************)
(* Request values: what a JSON or urlencoded body can carry in a field.    *)
(*   t = "undefined"  the field is absent                                  *)
(*   t = "null"       JSON null                                            *)
(*   t = "number"     a JSON number, n its value                           *)
(*   t = "string"     a string, s its characters                           *)
(***************************************************************************)
Undefined == [t |-> "undefined", n |-> NaN, s |-> <<>>]
JsNull == [t |-> "null", n |-> NaN, s |-> <<>>]
JsNum(v) == [t |-> "number", n |-> Fin(v), s |-> <<>>]
JsStr(chars) == [t |-> "string", n |-> NaN, s |-> chars]

DigitChars == <<"0", "1", "2", "3", "4", "5", "6", "7", "8", "9">>
IsDigit(c) == \E i \in 1..10 : DigitChars[i] = c
DigitVal(c) == (CHOOSE i \in 1..10 : DigitChars[i] = c) - 1

RECURSIVE TrimStart(_)
TrimStart(s) ==
  IF s # <<>> /\ Head(s) = " " THEN TrimStart(Tail(s)) ELSE s

\* the longest prefix of s made of digits
RECURSIVE DigitRun(_)
DigitRun(s) ==
  IF s # <<>> /\ IsDigit(Head(s)) THEN <<Head(s)>> \o DigitRun(Tail(s)) ELSE <<>>

RECURSIVE IntOfDigits(_)
IntOfDigits(ds) ==
  IF ds = <<>> THEN 0
  ELSE IntOfDigits(SubSeq(ds, 1, Len(ds) - 1)) * 10 + DigitVal(ds[Len(ds)])

\* the fraction digits as a count of 1/Scale units (digits beyond the
\* resolution of the fixed point are dropped)
FracOfDigits(ds) ==
  LET padded == SubSeq(ds \o <<"0", "0", "0", "0", "0", "0">>, 1, 6)
  IN IntOfDigits(padded)

StartsWith(s, p) == Len(s) >= Len(p) /\ SubSeq(s, 1, Len(p)) = p

InfinityChars == <<"I", "n", "f", "i", "n", "i", "t", "y">>

\* parseFloat of a string: leading white space is skipped, then the longest
\* prefix that is a decimal literal is converted; NaN when there is none.
\* (Exponent parts are not modelled: no request value of the model has one.)
ParseFloatChars(str) ==
  LET s0 == TrimStart(str)
      neg == s0 # <<>> /\ Head(s0) = "-"
      s1 == IF s0 # <<>> /\ Head(s0) \in {"-", "+"} THEN Tail(s0) ELSE s0
      intDigits == DigitRun(s1)
      rest == SubSeq(s1, Len(intDigits) + 1, Len(s1))
      fracDigits == IF rest # <<>> /\ Head(rest) = "." THEN DigitRun(Tail(rest)) ELSE <<>>
      magnitude == IntOfDigits(intDigits) * Scale + FracOfDigits(fracDigits)
  IN IF StartsWith(s1, InfinityChars) THEN (IF neg THEN NegInf ELSE PosInf)
     ELSE IF intDigits = <<>> /\ fracDigits = <<>> THEN NaN
     ELSE Fin(IF neg THEN 0 - magnitude ELSE magnitude)

\* parseFloat(x): x is converted to a string first; "undefined" and "null"
\* have no numeric prefix, a finite number prints as a literal of itself
parseFloat(x) ==
  CASE x.t = "number" -> x.n
    [] x.t = "string" -> ParseFloatChars(x.s)
    [] OTHER -> NaN

(***************************************************************************)
(* Route registry: the sample data and the seeding of both maps.           *)
(***************************************************************************)
\* JavaScript null, as the route_id of a record
Null == "null"

sampleRoutes == <<
  [ id |-> "ROUTE_001",
    name |-> "City Center - Airport",
    buses |-> <<"BUS_101", "BUS_102">>,
    stops |-> <<
      [name |-> <<"C","i","t","y"," ","C","e","n","t","e","r">>, lat |-> Fin(11156300), lon |-> Fin(77593200)],
      [name |-> <<"M","a","i","n"," ","M","a","r","k","e","t">>, lat |-> Fin(11166300), lon |-> Fin(77603200)],
      [name |-> <<"U","n","i","v","e","r","s","i","t","y">>, lat |-> Fin(11176300), lon |-> Fin(77613200)],
      [name |-> <<"A","i","r","p","o","r","t">>, lat |-> Fin(11186300), lon |-> Fin(77623200)] >> ],
  [ id |-> "ROUTE_002",
    name |-> "Railway Station - Tech Park",
    buses |-> <<"BUS_201", "BUS_202">>,
    stops |-> <<
      [name |-> <<"R","a","i","l","w","a","y"," ","S","t","a","t","i","o","n">>, lat |-> Fin(11146300), lon |-> Fin(77583200)],
      [name |-> <<"S","h","o","p","p","i","n","g"," ","M","a","l","l">>, lat |-> Fin(11151300), lon |-> Fin(77593200)],
      [name |-> <<"H","o","s","p","i","t","a","l">>, lat |-> Fin(11161300), lon |-> Fin(77603200)],
      [name |-> <<"T","e","c","h"," ","P","a","r","k">>, lat |-> Fin(11171300), lon |-> Fin(77613200)] >> ]
>>

ArrayIncludes(seq, x) == \E i \in 1..Len(seq) : seq[i] = x

\* Map.set(key, value)
MapSet(map, key, value) ==
  [k \in DOMAIN map \cup {key} |-> IF k = key THEN value ELSE map[k]]

\* Map.has(key)
MapHas(map, key) == key \in DOMAIN map

\* the record the seeding loop stores for busId of route: the first stop,
\* speed 0, status stopped
SeedRecord(route, busId, t) ==
  [ device_id |-> busId,
    lat |-> route.stops[1].lat,
    lon |-> route.stops[1].lon,
    speed |-> Fin(0),
    route_id |-> route.id,
    updated |-> t,
    status |-> "stopped" ]

\* busLocations after sampleRoutes.forEach: a later route overwrites the
\* record of a bus an earlier route also lists
RECURSIVE SeedLocations(_, _, _)
SeedLocations(routes, map, t) ==
  IF routes = <<>> THEN map
  ELSE LET route == Head(routes)
           seeded == [k \in DOMAIN map \cup {route.buses[i] : i \in 1..Len(route.buses)} |->
                        IF ArrayIncludes(route.buses, k) THEN SeedRecord(route, k, t) ELSE map[k]]
       IN SeedLocations(Tail(routes), seeded, t)

\* the empty Map
EmptyMap == [k \in {} |-> Null]

\* Map.set on the iteration order: a new key goes last, a key the Map has
\* keeps its place
KeysSet(keys, key) == IF ArrayIncludes(keys, key) THEN keys ELSE Append(keys, key)

RECURSIVE KeysSetAll(_, _)
KeysSetAll(keys, busIds) ==
  IF busIds = <<>> THEN keys ELSE KeysSetAll(KeysSet(keys, Head(busIds)), Tail(busIds))

\* the iteration order of busLocations after sampleRoutes.forEach
RECURSIVE SeedKeys(_, _)
SeedKeys(routes, keys) ==
  IF routes = <<>> THEN keys
  ELSE SeedKeys(Tail(routes), KeysSetAll(keys, Head(routes).buses))

(***************************************************************************)
(* POST /api/locations                                                     *)
(***************************************************************************)
\* a device_id field: absent, or a string
IdUndefined == [t |-> "undefined", id |-> ""]
IdStr(x) == [t |-> "string", id |-> x]

\* ToBoolean(device_id): undefined and the empty string are falsy
IdTruthy(d) == d.t = "string" /\ d.id # ""

\* !device_id || lat === undefined || lon === undefined
MissingFields(body) ==
  \/ ~IdTruthy(body.device_id)
  \/ body.lat.t = "undefined"
  \/ body.lon.t = "undefined"

\* mutant: the speed is parsed without the default
ParsedSpeed_noDefault(speed) == parseFloat(speed)

\* parseFloat(speed) || 0
ParsedSpeed(speed) ==
  LET p == parseFloat(speed) IN IF NumTruthy(p) THEN p ELSE Fin(0)

\* isNaN(parsedLat) || isNaN(parsedLon)
InvalidCoordinates(parsedLat, parsedLon) == isNaN(parsedLat) \/ isNaN(parsedLon)

\* mutant: the loop has no break, so the last route that lists the bus wins
FindRoute_lastMatch(routes, device_id) ==
  IF \E p \in 1..Len(routes) : ArrayIncludes(routes[p].buses, device_id)
    THEN routes[CHOOSE p \in 1..Len(routes) :
                  /\ ArrayIncludes(routes[p].buses, device_id)
                  /\ \A q \in (p + 1)..Len(routes) : ~ArrayIncludes(routes[q].buses, device_id)].id
  ELSE Null

\* the loop over busRoutes.entries(): the id of the first route whose buses
\* include device_id, null when there is none
RECURSIVE FindRoute(_, _)
FindRoute(routes, device_id) ==
  IF routes = <<>> THEN Null
  ELSE IF ArrayIncludes(Head(routes).buses, device_id) THEN Head(routes).id
  ELSE FindRoute(Tail(routes), device_id)

\* mutant: a record is active also when its parsed speed is 0
locationData_activeAtZero(device_id, parsedLat, parsedLon, parsedSpeed, routeId, t) ==
  [ device_id |-> device_id,
    lat |-> parsedLat,
    lon |-> parsedLon,
    speed |-> parsedSpeed,
    route_id |-> routeId,
    updated |-> t,
    status |-> IF NumLE(Fin(0), parsedSpeed) THEN "active" ELSE "stopped" ]

\* mutant: lat and lon stored the wrong way round
locationData_swapped(device_id, parsedLat, parsedLon, parsedSpeed, routeId, t) ==
  [ device_id |-> device_id,
    lat |-> parsedLon,
    lon |-> parsedLat,
    speed |-> parsedSpeed,
    route_id |-> routeId,
    updated |-> t,
    status |-> IF NumGT(parsedSpeed, Fin(0)) THEN "active" ELSE "stopped" ]

locationData(device_id, parsedLat, parsedLon, parsedSpeed, routeId, t) ==
  [ device_id |-> device_id,
    lat |-> parsedLat,
    lon |-> parsedLon,
    speed |-> parsedSpeed,
    route_id |-> routeId,
    updated |-> t,
    status |-> IF NumGT(parsedSpeed, Fin(0)) THEN "active" ELSE "stopped" ]

\* the record the handler builds from a request body that passed validation
IngestRecord(body, t) ==
  locationData(body.device_id.id, parseFloat(body.lat), parseFloat(body.lon),
               ParsedSpeed(body.speed), FindRoute(busRoutes, body.device_id.id), t)

\* the handler answers 400 without touching the store
IngestRejected(body) ==
  MissingFields(body) \/ InvalidCoordinates(parseFloat(body.lat), parseFloat(body.lon))

\* the response of the handler
IngestResponse(body, t) ==
  IF MissingFields(body)
    THEN [status |-> 400, error |-> "Missing required fields: device_id, lat, lon"]
  ELSE IF InvalidCoordinates(parseFloat(body.lat), parseFloat(body.lon))
    THEN [status |-> 400, error |-> "Invalid latitude or longitude values"]
  ELSE [status |-> 200, success |-> TRUE, data |-> IngestRecord(body, t)]

\* the iteration order of busLocations after the handler
IngestKeys(keys, body) ==
  IF IngestRejected(body) THEN keys ELSE KeysSet(keys, body.device_id.id)

\* mutant: the coordinates are validated after the record is stored
IngestStore_lateValidation(map, body, t) ==
  IF MissingFields(body) THEN map
  ELSE MapSet(map, body.device_id.id, IngestRecord(body, t))

\* mutant: the new record is merged into the old one, so a request without
\* speed keeps the speed and status stored before
IngestStore_merge(map, body, t) ==
  IF IngestRejected(body) THEN map
  ELSE IF MapHas(map, body.device_id.id) /\ body.speed = Undefined
    THEN MapSet(map, body.device_id.id,
                [IngestRecord(body, t) EXCEPT
                   !.speed = map[body.device_id.id].speed,
                   !.status = map[body.device_id.id].status])
  ELSE MapSet(map, body.device_id.id, IngestRecord(body, t))

\* busLocations after the handler
IngestStore(map, body, t) ==
  IF IngestRejected(body) THEN map
  ELSE MapSet(map, body.device_id.id, IngestRecord(body, t))

(***************************************************************************)
(* GET /api/locations/:device_id                                           *)
(***************************************************************************)
\* mutant: a lookup that only knows the buses some route lists
GetLocationResponse_listedOnly(map, device_id) ==
  IF ~MapHas(map, device_id) \/ FindRoute(busRoutes, device_id) = Null
    THEN [status |-> 404, error |-> "Bus not found"]
  ELSE [status |-> 200, data |-> map[device_id]]

GetLocationResponse(map, device_id) ==
  IF ~MapHas(map, device_id)
    THEN [status |-> 404, error |-> "Bus not found"]
  ELSE [status |-> 200, data |-> map[device_id]]

(***************************************************************************)
(* GET /api/locations and GET /api/routes                                  *)
(***************************************************************************)
\* Array.from(busLocations.values())
MapValues(map, keys) == [i \in 1..Len(keys) |-> map[keys[i]]]

GetLocationsResponse(map, keys) == [status |-> 200, data |-> MapValues(map, keys)]

\* the entry of one bus of a route: busLocations.get(busId) || null
RouteBusLocation(busId, map) ==
  [id |-> busId, location |-> IF MapHas(map, busId) THEN map[busId] ELSE Null]

\* mutant: the entries of a route are listed from its last bus to its first
RouteWithLocations_reversed(route, map) ==
  [route EXCEPT !.buses =
     [i \in 1..Len(route.buses) |->
        RouteBusLocation(route.buses[Len(route.buses) + 1 - i], map)]]

\* a route with each of its bus ids replaced by the entry of the bus
RouteWithLocations(route, map) ==
  [route EXCEPT !.buses = [i \in 1..Len(route.buses) |-> RouteBusLocation(route.buses[i], map)]]

GetRoutesResponse(routes, map) ==
  [status |-> 200, data |-> [p \in 1..Len(routes) |-> RouteWithLocations(routes[p], map)]]

(***************************************************************************)
(* simulateBusMovement: the interval callback                              *)
(***************************************************************************)
\* setInterval(..., 8000)
Interval == 8000

\* (Math.random() - 0.5) * 0.001, for Math.random() = r / Scale
PositionChange(r) == Fin((r - Scale \div 2) \div 1000)

\* (Math.random() - 0.5) * 10
SpeedChange(r) == Fin((r - Scale \div 2) * 10)

\* mutant: the timestamp is refreshed for every record, active or not
SimulatedLocation_touchAll(location, draw, t) ==
  IF location.status = "active"
    THEN [location EXCEPT
            !.lat = NumAdd(location.lat, PositionChange(draw[1])),
            !.lon = NumAdd(location.lon, PositionChange(draw[2])),
            !.speed = MathMax(Fin(0), NumAdd(location.speed, SpeedChange(draw[3]))),
            !.updated = t]
  ELSE [location EXCEPT !.updated = t]

\* mutant: the callback moves the record and stops before it writes the
\* speed and the time
SimulatedLocation_positionOnly(location, draw, t) ==
  IF location.status = "active"
    THEN [location EXCEPT
            !.lat = NumAdd(location.lat, PositionChange(draw[1])),
            !.lon = NumAdd(location.lon, PositionChange(draw[2]))]
  ELSE location

\* the body of the forEach callback for one record; draw holds the three
\* Math.random() results in call order
SimulatedLocation(location, draw, t) ==
  IF location.status = "active"
    THEN [location EXCEPT
            !.lat = NumAdd(location.lat, PositionChange(draw[1])),
            !.lon = NumAdd(location.lon, PositionChange(draw[2])),
            !.speed = MathMax(Fin(0), NumAdd(location.speed, SpeedChange(draw[3]))),
            !.updated = t]
  ELSE location

\* mutant: the callback rebuilds the Map from the records that are moving
SimulatedStore_activeOnly(map, draws, t) ==
  [k \in {x \in DOMAIN map : map[x].status = "active"} |-> SimulatedLocation(map[k], draws[k], t)]

\* mutant: the callback works on the records the process started with and
\* writes them back
SimulatedStore_fromStartup(map, draws, t) ==
  [k \in DOMAIN map |->
     IF map[k].status = "active" /\ MapHas(SeedLocations(sampleRoutes, EmptyMap, 0), k)
       THEN SimulatedLocation([SeedLocations(sampleRoutes, EmptyMap, 0)[k] EXCEPT !.status = "active"],
                              draws[k], t)
     ELSE SimulatedLocation(map[k], draws[k], t)]

\* busLocations after one run of the callback
SimulatedStore(map, draws, t) ==
  [k \in DOMAIN map |-> SimulatedLocation(map[k], draws[k], t)]

(***************************************************************************)
(* Floating point for the distance and ETA arithmetic: a value is m * 10^e *)
(* with m = 0 or 1000 <= |m| <= 10000 (four significant digits, rounded to *)
(* nearest).  Math.sin, Math.cos, Math.sqrt and Math.atan2 are computed to *)
(* that precision from their series; arguments stay within the range of    *)
(* geographic coordinates (|angle| <= pi), where the series need no range  *)
(* reduction.                                                              *)
(***************************************************************************)
Abs(n) == IF n < 0 THEN 0 - n ELSE n
Sign(n) == IF n < 0 THEN 0 - 1 ELSE 1

\* number of decimal digits of n > 0
NumDigits(n) ==
  IF n < 10^4
    THEN (IF n < 10 THEN 1 ELSE IF n < 100 THEN 2 ELSE IF n < 1000 THEN 3 ELSE 4)
  ELSE IF n < 10^7
    THEN (IF n < 10^5 THEN 5 ELSE IF n < 10^6 THEN 6 ELSE 7)
  ELSE (IF n < 10^8 THEN 8 ELSE IF n < 10^9 THEN 9 ELSE 10)

FZero == [m |-> 0, e |-> 0]

\* m * 10^e with the mantissa brought to four digits
FNorm(m, e) ==
  IF m = 0 THEN FZero
  ELSE LET a == Abs(m)
           d == NumDigits(a)
       IN IF d > 4
            THEN [m |-> Sign(m) * ((a + (10^(d - 4)) \div 2) \div 10^(d - 4)), e |-> e + (d - 4)]
          ELSE [m |-> m * 10^(4 - d), e |-> e - (4 - d)]

FInt(n) == FNorm(n, 0)
FNeg(a) == [m |-> 0 - a.m, e |-> a.e]
FMul(a, b) == FNorm(a.m * b.m, a.e + b.e)
FDiv(a, b) ==
  FNorm(Sign(a.m) * Sign(b.m) * ((Abs(a.m) * 10^5) \div Abs(b.m)), a.e - b.e - 5)

FAdd(a, b) ==
  IF a.m = 0 THEN b
  ELSE IF b.m = 0 THEN a
  ELSE LET hi == IF a.e >= b.e THEN a ELSE b
           lo == IF a.e >= b.e THEN b ELSE a
           d == hi.e - lo.e
           up == IF d < 4 THEN d ELSE 4
       IN IF d > 8 THEN hi
          ELSE FNorm(hi.m * 10^up + Sign(lo.m) * (Abs(lo.m) \div 10^(d - up)), hi.e - up)

FSub(a, b) == FAdd(a, FNeg(b))
FAbs(a) == [m |-> Abs(a.m), e |-> a.e]
FLess(a, b) == FSub(a, b).m < 0

\* the integer square root of n, by Newton's iteration from above
RECURSIVE IsqrtFrom(_, _)
IsqrtFrom(n, x) ==
  LET y == (x + n \div x) \div 2
  IN IF y >= x THEN x ELSE IsqrtFrom(n, y)

Isqrt(n) == IF n = 0 THEN 0 ELSE IsqrtFrom(n, 46340)

\* Math.sqrt(a), a >= 0
FSqrt(a) ==
  IF a.m <= 0 THEN FZero
  ELSE LET odd == a.e % 2 # 0
           m2 == IF odd THEN a.m * 10 ELSE a.m
           e2 == IF odd THEN a.e - 1 ELSE a.e
       IN FNorm(Isqrt(m2 * 10^4), (e2 - 4) \div 2)

\* a term of a series no longer changes a four digit sum
Negligible(term, sum) == term.m = 0 \/ (sum.m # 0 /\ term.e + 6 < sum.e)

\* sum + term + next terms, where the term after t is -t * x2 / (k (k + 1))
RECURSIVE Series(_, _, _, _)
Series(sum, term, x2, k) ==
  IF Negligible(term, sum) \/ k > 40 THEN sum
  ELSE Series(FAdd(sum, term),
              FNeg(FDiv(FMul(term, x2), FInt(k * (k + 1)))),
              x2, k + 2)

\* Math.sin(x) = x - x^3/3! + x^5/5! - ...
FSin(x) == IF x.m = 0 THEN FZero ELSE Series(FZero, x, FMul(x, x), 2)

\* Math.cos(x) = 1 - x^2/2! + x^4/4! - ...
FCos(x) == Series(FZero, FInt(1), FMul(x, x), 1)

FPi == [m |-> 3142, e |-> 0 - 3]

\* atan(t) = t - t^3/3 + t^5/5 - ..., for small t
RECURSIVE AtanSeries(_, _, _, _)
AtanSeries(sum, power, t2, k) ==
  LET term == FDiv(power, FInt(k))
  IN IF Negligible(term, sum) \/ k > 40 THEN sum
     ELSE AtanSeries(FAdd(sum, term), FNeg(FMul(power, t2)), t2, k + 2)

\* atan(t/2 angle): t / (1 + sqrt(1 + t^2))
HalfAngle(t) == FDiv(t, FAdd(FInt(1), FSqrt(FAdd(FInt(1), FMul(t, t)))))

\* atan(t) for 0 <= t <= 1, from the series at a quarter of the angle
FAtan(t) ==
  LET q == HalfAngle(HalfAngle(t))
  IN FMul(FInt(4), AtanSeries(FZero, q, FMul(q, q), 1))

\* Math.atan2(y, x) for y >= 0 and x >= 0
FAtan2(y, x) ==
  IF y.m = 0 THEN FZero
  ELSE IF x.m = 0 THEN FDiv(FPi, FInt(2))
  ELSE IF FLess(x, y) THEN FSub(FDiv(FPi, FInt(2)), FAtan(FDiv(x, y)))
  ELSE FAtan(FDiv(y, x))

\* a finite number in fixed point, as a floating point value
FloatOf(x) == FNorm(x.v, 0 - 6)

\* Math.round of a floating point value: the nearest integer, halves up
FRound(a) ==
  IF a.e >= 0 THEN a.m * 10^a.e
  ELSE IF a.e < 0 - 5 THEN 0
  ELSE (2 * a.m + 10^(0 - a.e)) \div (2 * 10^(0 - a.e))

(***************************************************************************)
(* calculateDistance and calculateETA                                      *)
(***************************************************************************)
\* Earth's radius in kilometers
R == 6371

\* degrees * Math.PI / 180
Radians(deg) == FDiv(FMul(deg, FPi), FInt(180))

\* the haversine formula on finite coordinates; the result is a floating
\* point number of kilometers
Haversine(lat1, lon1, lat2, lon2) ==
  LET dLat == Radians(FloatOf(NumSub(lat2, lat1)))
      dLon == Radians(FloatOf(NumSub(lon2, lon1)))
      sinLat == FSin(FDiv(dLat, FInt(2)))
      sinLon == FSin(FDiv(dLon, FInt(2)))
      a == FAdd(FMul(sinLat, sinLat),
                FMul(FMul(FCos(Radians(FloatOf(lat1))), FCos(Radians(FloatOf(lat2)))),
                     FMul(sinLon, sinLon)))
      c == FMul(FInt(2), FAtan2(FSqrt(a), FSqrt(FSub(FInt(1), a))))
  IN FMul(FInt(R), c)

\* calculateDistance: [nan |-> TRUE] when the result is NaN (an operand that
\* is not finite makes a difference infinite or NaN, and Math.sin and
\* Math.cos of those are NaN), else [nan |-> FALSE, km |-> the distance]
calculateDistance(lat1, lon1, lat2, lon2) ==
  IF isFinite(lat1) /\ isFinite(lon1) /\ isFinite(lat2) /\ isFinite(lon2)
    THEN [nan |-> FALSE, km |-> Haversine(lat1, lon1, lat2, lon2)]
  ELSE [nan |-> TRUE, km |-> FZero]

\* the decimal digits of n > 0, as ToString(n) prints them
RECURSIVE DigitsOf(_)
DigitsOf(n) ==
  IF n < 10 THEN <<DigitChars[n + 1]>>
  ELSE DigitsOf(n \div 10) \o <<DigitChars[(n % 10) + 1]>>

StoppedText == <<"S", "t", "o", "p", "p", "e", "d">>
ArrivedText == <<"A", "r", "r", "i", "v", "e", "d">>
UnknownText == <<"U", "n", "k", "n", "o", "w", "n">>

\* mutant: the count is given in hours, rounded down
MinutesText_hours(etaMinutes) == DigitsOf(etaMinutes \div 60) \o <<" ", "m", "i", "n">>

\* `${etaMinutes} min`
MinutesText(etaMinutes) == DigitsOf(etaMinutes) \o <<" ", "m", "i", "n">>

\* Math.round(distance / speed * 60) for speed # 0: [nan |-> TRUE] for NaN,
\* else [nan |-> FALSE, n |-> the integer] (a distance divided by an
\* infinite speed is 0)
EtaMinutes(distance, speed) ==
  IF distance.nan \/ isNaN(speed) THEN [nan |-> TRUE, n |-> 0]
  ELSE IF ~isFinite(speed) THEN [nan |-> FALSE, n |-> 0]
  ELSE [nan |-> FALSE,
        n |-> FRound(FMul(FDiv(distance.km, FloatOf(speed)), FInt(60)))]

calculateETA(currentLat, currentLon, destLat, destLon, speed) ==
  IF NumEq(speed, Fin(0)) THEN StoppedText
  ELSE LET distance == calculateDistance(currentLat, currentLon, destLat, destLon)
           etaMinutes == EtaMinutes(distance, speed)
       IN IF ~etaMinutes.nan /\ etaMinutes.n > 0
            THEN MinutesText(etaMinutes.n)
          ELSE ArrivedText

(***************************************************************************)
(* GET /api/search                                                         *)
(***************************************************************************)
UpperChars == <<"A", "B", "C", "D", "E", "F", "G", "H", "I", "J", "K", "L", "M",
                "N", "O", "P", "Q", "R", "S", "T", "U", "V", "W", "X", "Y", "Z">>
LowerChars == <<"a", "b", "c", "d", "e", "f", "g", "h", "i", "j", "k", "l", "m",
                "n", "o", "p", "q", "r", "s", "t", "u", "v", "w", "x", "y", "z">>

LowerChar(c) ==
  IF \E i \in 1..26 : UpperChars[i] = c
    THEN LowerChars[CHOOSE i \in 1..26 : UpperChars[i] = c]
  ELSE c

\* String.prototype.toLowerCase
toLowerCase(str) == [i \in 1..Len(str) |-> LowerChar(str[i])]

\* String.prototype.includes: the search string is found at some position
\* from i on
RECURSIVE IncludesFrom(_, _, _)
IncludesFrom(str, search, i) ==
  IF i + Len(search) - 1 > Len(str) THEN FALSE
  ELSE IF SubSeq(str, i, i + Len(search) - 1) = search THEN TRUE
  ELSE IncludesFrom(str, search, i + 1)

StringIncludes(str, search) == IncludesFrom(str, search, 1)

\* ToBoolean of a query parameter: absent and "" are falsy
QueryTruthy(x) == x.t = "string" /\ x.s # <<>>

\* mutant: only an absent parameter is refused, an empty one is searched for
SearchRejected_absentOnly(query) == query.from.t = "undefined" \/ query.to.t = "undefined"

\* !from || !to
SearchRejected(query) == ~QueryTruthy(query.from) \/ ~QueryTruthy(query.to)

\* mutant: the stop matching from has to come before the stop matching to
RouteMatches_positional(route, from, to) ==
  LET stopNames == [i \in 1..Len(route.stops) |-> toLowerCase(route.stops[i].name)]
  IN \E i, j \in 1..Len(stopNames) :
       /\ i < j
       /\ StringIncludes(stopNames[i], toLowerCase(from))
       /\ StringIncludes(stopNames[j], toLowerCase(to))

\* the filter callback
RouteMatches(route, from, to) ==
  LET stopNames == [i \in 1..Len(route.stops) |-> toLowerCase(route.stops[i].name)]
  IN /\ \E i \in 1..Len(stopNames) : StringIncludes(stopNames[i], toLowerCase(from))
     /\ \E i \in 1..Len(stopNames) : StringIncludes(stopNames[i], toLowerCase(to))

matchingRoutes(routes, from, to) ==
  SelectSeq(routes, LAMBDA route : RouteMatches(route, from, to))

\* busLocations.get of a key the Map does not have
NoLocation == "undefined"

\* mutant: the ETA is computed to the first stop of the route
RouteBus_firstStop(route, busId, map) ==
  [ id |-> busId,
    route |-> route.name,
    location |-> IF MapHas(map, busId) THEN map[busId] ELSE NoLocation,
    eta |-> IF MapHas(map, busId)
              THEN calculateETA(map[busId].lat, map[busId].lon,
                                route.stops[1].lat, route.stops[1].lon,
                                map[busId].speed)
            ELSE UnknownText ]

\* the entry of one bus of a matching route
RouteBus(route, busId, map) ==
  [ id |-> busId,
    route |-> route.name,
    location |-> IF MapHas(map, busId) THEN map[busId] ELSE NoLocation,
    eta |-> IF MapHas(map, busId)
              THEN calculateETA(map[busId].lat, map[busId].lon,
                                route.stops[Len(route.stops)].lat,
                                route.stops[Len(route.stops)].lon,
                                map[busId].speed)
            ELSE UnknownText ]

routeBuses(route, map) ==
  [i \in 1..Len(route.buses) |-> RouteBus(route, route.buses[i], map)]

SearchResults(routes, map, from, to) ==
  LET matching == matchingRoutes(routes, from, to)
  IN [i \in 1..Len(matching) |->
        [ route_id |-> matching[i].id,
          route_name |-> matching[i].name,
          buses |-> routeBuses(matching[i], map),
          stops |-> matching[i].stops ]]

SearchResponse(routes, map, query) ==
  IF SearchRejected(query)
    THEN [status |-> 400, error |-> "Missing from or to parameter"]
  ELSE [status |-> 200, data |-> SearchResults(routes, map, query.from.s, query.to.s)]

(***************************************************************************)
(* LiveTrackingPage: the page state and the polling effect.  A location of *)
(* the page is [has, lat, lon]: has = FALSE for undefined (lat = lon = 0). *)
(***************************************************************************)
UndefinedLocation == [has |-> FALSE, lat |-> Fin(0), lon |-> Fin(0)]
LocationAt(lat, lon) == [has |-> TRUE, lat |-> Fin(lat), lon |-> Fin(lon)]

\* 0.000001 degrees, in fixed point
MinChange == Fin(Scale \div 1000000)

\* a < b on numbers
NumLT(a, b) == NumGT(b, a)

\* the test "location did not change" of updateLocation, against the
\* currentLocation its closure holds
SamePosition(location, current) ==
  /\ current.has
  /\ NumLT(MathAbs(NumSub(location.lat, current.lat)), MinChange)
  /\ NumLT(MathAbs(NumSub(location.lon, current.lon)), MinChange)

\* updateLocation returns without an update: the response is not ok, or the
\* fetched position is the one the closure holds
PollSkipped(response, current) ==
  ~response.ok \/ SamePosition(response.location, current)

(***************************************************************************)
(* Inputs explored.                                                        *)
(***************************************************************************)
Body(device_id, lat, lon, speed) ==
  [device_id |-> device_id, lat |-> lat, lon |-> lon, speed |-> speed]

\* "11.1863", "77.6232": the Airport stop, sent as text
LatText == JsStr(<<"1", "1", ".", "1", "8", "6", "3">>)
LonText == JsStr(<<"7", "7", ".", "6", "2", "3", "2">>)
\* 11.1563, 77.5932: the City Center stop, sent as JSON numbers
LatNumber == JsNum(11156300)
LonNumber == JsNum(77593200)

\* request bodies of POST /api/locations
Bodies ==
  { \* accepted
    Body(IdStr("BUS_101"), LatNumber, LonNumber, JsNum(30 * Scale)),
    Body(IdStr("BUS_101"), LatText, LonText, Undefined),
    Body(IdStr("BUS_101"), LatNumber, LonText, JsStr(<<"2", ".", "5", "k", "m">>)),
    Body(IdStr("BUS_999"), LatText, LonNumber, JsStr(<<"-", "5">>)),
    Body(IdStr("BUS_999"), LatNumber, LonNumber, JsStr(<<"f", "a", "s", "t">>)),
    Body(IdStr("BUS_101"), JsStr(InfinityChars), LonNumber, JsNum(30 * Scale)),
    \* rejected
    Body(IdUndefined, LatNumber, LonNumber, JsNum(30 * Scale)),
    Body(IdStr(""), LatNumber, LonNumber, JsNum(30 * Scale)),
    Body(IdStr("BUS_101"), Undefined, LonNumber, JsNum(30 * Scale)),
    Body(IdStr("BUS_101"), LatNumber, Undefined, Undefined),
    Body(IdStr("BUS_101"), JsStr(<<"n", "o", "t", "-", "a", "-", "n", "u", "m", "b", "e", "r">>), LonNumber, JsNum(0)),
    Body(IdStr("BUS_999"), LatNumber, JsNull, JsNum(30 * Scale)) }

\* request bodies explored together with searches: BUS_101 moving from the
\* City Center stop, BUS_101 with a latitude text that parses to Infinity,
\* BUS_201 with a negative speed, BUS_101 with a speed one callback can
\* bring to 0
SearchBodies ==
  { Body(IdStr("BUS_101"), LatNumber, LonNumber, JsNum(30 * Scale)),
    Body(IdStr("BUS_101"), JsStr(InfinityChars), LonNumber, JsNum(30 * Scale)),
    Body(IdStr("BUS_201"), LatText, LonText, JsStr(<<"-", "5">>)),
    Body(IdStr("BUS_101"), LatNumber, LonText, JsStr(<<"2", ".", "5", "k", "m">>)) }

\* request bodies explored together with all the read handlers: BUS_101
\* moving, a bus no route lists, and a body without coordinates
ReadBodies ==
  { Body(IdStr("BUS_101"), LatNumber, LonNumber, JsNum(30 * Scale)),
    Body(IdStr("BUS_999"), LatText, LonText, JsNum(30 * Scale)),
    Body(IdStr("BUS_101"), Undefined, LonNumber, JsNum(30 * Scale)) }

\* path parameters of GET /api/locations/:device_id
DeviceIds == {"BUS_101", "BUS_201", "BUS_999"}

\* query strings of GET /api/search
City == JsStr(<<"c", "i", "t", "y">>)
AirportCap == JsStr(<<"A", "i", "r", "p", "o", "r", "t">>)
Nowhere == JsStr(<<"N", "o", "w", "h", "e", "r", "e">>)
LetterA == JsStr(<<"a">>)
EmptyString == JsStr(<<>>)

Query(from, to) == [from |-> from, to |-> to]

Queries ==
  { Query(City, AirportCap), Query(LetterA, LetterA), Query(Nowhere, AirportCap),
    Query(EmptyString, AirportCap), Query(City, Undefined) }

\* the terms of the wide query set: present or absent, any case, matching
\* one route, both or none, within a stop name or across its words
Terms ==
  { City, AirportCap, Nowhere, LetterA, EmptyString, Undefined,
    JsStr(<<"P", "A", "R", "K">>),
    JsStr(<<"s", "t", "a", "t", "i", "o", "n">>),
    JsStr(<<"m", "a", "l", "l">>),
    JsStr(<<"y", " ", "c">>),
    JsStr(<<"a", "i", "r", "p", "o", "r", "t", "s">>) }

\* a query that matches a route and one without its to parameter
ReadQueries == {Query(City, AirportCap), Query(City, Undefined)}

WideQueries == {Query(from, to) : from \in Terms, to \in Terms}

\* results of Math.random(), in 1/Scale units: 0 and the largest value below 1
RandomSamples == {0, Scale - 1}
Draws == RandomSamples \X RandomSamples \X RandomSamples

\* one draw per record the callback updates
DrawsFor(map) ==
  LET active == {k \in DOMAIN map : map[k].status = "active"}
  IN { [k \in DOMAIN map |-> IF k \in active THEN g[k] ELSE <<0, 0, 0>>] :
         g \in [active -> Draws] }

\* the bus.location the page is opened with: none, the City Center stop, or
\* the Airport stop
BusLocations ==
  {UndefinedLocation, LocationAt(11156300, 77593200), LocationAt(11186300, 77623200)}

\* responses of GET /api/locations/:device_id to the page: not ok, or a
\* record at the City Center stop, 0.000001 degrees north of it, or at the
\* Airport stop
PollResponses ==
  { [ok |-> FALSE, location |-> UndefinedLocation],
    [ok |-> TRUE, location |-> LocationAt(11156300, 77593200)],
    [ok |-> TRUE, location |-> LocationAt(11156301, 77593200)],
    [ok |-> TRUE, location |-> LocationAt(11186300, 77623200)] }

\* the clock moves by a millisecond or by a timer interval
ClockSteps == {1, Interval}

(***************************************************************************)
(* The state machine.                                                      *)
(***************************************************************************)
Init ==
  /\ now = 0
  \* busRoutes.set(route.id, route) for each sample route; the sample ids are distinct
  /\ busRoutes = sampleRoutes
  /\ busLocations = SeedLocations(sampleRoutes, EmptyMap, 0)
  /\ insertion = SeedKeys(sampleRoutes, <<>>)
  /\ listening = FALSE
  /\ timers = 0
  /\ nextFire = 0
  /\ ops = 0
  /\ advances = 0
  /\ last = [op |-> "start"]
  /\ ingestSpeed = EmptyMap
  /\ mounted = FALSE
  /\ currentLocation = UndefinedLocation
  /\ lastUpdate = 0
  /\ effectLocation = UndefinedLocation
  /\ markerRef = UndefinedLocation
  /\ hist = [k \in DOMAIN SeedLocations(sampleRoutes, EmptyMap, 0) |-> [by |-> "seed", ingests |-> 0]]

\* the system clock advances
Advance ==
  /\ advances < MaxAdvances
  /\ \E d \in ClockSteps : now' = now + d
  /\ advances' = advances + 1
  /\ UNCHANGED <<pageVars, busRoutes, ingestSpeed, busLocations, insertion, listening, timers, nextFire, ops, last, hist>>

\* mutant: every run of the callback below starts one more interval timer,
\* also when the server listens already
Listen_timerPerCall ==
  /\ timers < 2
  /\ listening' = TRUE
  /\ timers' = timers + 1
  /\ nextFire' = now + Interval
  /\ last' = [op |-> "listen"]
  /\ UNCHANGED <<pageVars, busRoutes, ingestSpeed, busLocations, insertion, now, ops, advances, hist>>

\* app.listen's callback: the server accepts requests and
\* simulateBusMovement starts the interval timer
Listen ==
  /\ ~listening
  /\ listening' = TRUE
  /\ timers' = timers + 1
  /\ nextFire' = now + Interval
  /\ last' = [op |-> "listen"]
  /\ UNCHANGED <<pageVars, busRoutes, ingestSpeed, busLocations, insertion, now, ops, advances, hist>>

\* POST /api/locations, for a request body drawn from bodies
PostLocationOver(bodies) ==
  /\ listening
  /\ \E body \in bodies :
        /\ IngestRejected(body) \/ ops < MaxOps
        /\ busLocations' = IngestStore(busLocations, body, now)
        /\ insertion' = IngestKeys(insertion, body)
        /\ ingestSpeed' = IF IngestRejected(body) THEN ingestSpeed
                          ELSE MapSet(ingestSpeed, body.device_id.id, ParsedSpeed(body.speed))
        /\ ops' = IF IngestRejected(body) THEN ops ELSE ops + 1
        /\ last' = [op |-> "ingest", req |-> body, res |-> IngestResponse(body, now)]
        /\ hist' = IF IngestRejected(body) THEN hist
                   ELSE LET id == body.device_id.id
                        IN MapSet(hist, id,
                                  [by |-> "ingest",
                                   ingests |-> IF MapHas(hist, id) THEN hist[id].ingests + 1 ELSE 1])
  /\ UNCHANGED <<pageVars, busRoutes, now, listening, timers, nextFire, advances>>

PostLocation == PostLocationOver(Bodies)

PostLocationSearch == PostLocationOver(SearchBodies)

PostLocationReads == PostLocationOver(ReadBodies)

\* GET /api/locations/:device_id
GetLocation ==
  /\ listening
  /\ \E device_id \in DeviceIds :
        last' = [op |-> "get_one", req |-> device_id,
                 res |-> GetLocationResponse(busLocations, device_id)]
  /\ UNCHANGED <<pageVars, busRoutes, ingestSpeed, busLocations, insertion, now, listening, timers, nextFire, ops, advances, hist>>

\* GET /api/locations
GetLocations ==
  /\ listening
  /\ last' = [op |-> "get_all", res |-> GetLocationsResponse(busLocations, insertion)]
  /\ UNCHANGED <<pageVars, busRoutes, ingestSpeed, busLocations, insertion, now, listening, timers, nextFire, ops, advances, hist>>

\* GET /api/routes
GetRoutes ==
  /\ listening
  /\ last' = [op |-> "list_routes", res |-> GetRoutesResponse(busRoutes, busLocations)]
  /\ UNCHANGED <<pageVars, busRoutes, ingestSpeed, busLocations, insertion, now, listening, timers, nextFire, ops, advances, hist>>

\* mutant: the handler puts the stop names of the registry in lowercase
\* before it matches them
SearchOver_lowercaseInPlace(queries) ==
  /\ listening
  /\ \E query \in queries :
        last' = [op |-> "search", req |-> query,
                 res |-> SearchResponse(busRoutes, busLocations, query)]
  /\ busRoutes' =
       [p \in 1..Len(busRoutes) |->
          [busRoutes[p] EXCEPT !.stops =
             [i \in 1..Len(busRoutes[p].stops) |->
                [busRoutes[p].stops[i] EXCEPT !.name = toLowerCase(busRoutes[p].stops[i].name)]]]]
  /\ UNCHANGED <<pageVars, ingestSpeed, busLocations, insertion, now, listening, timers, nextFire, ops,
                 advances, hist>>

\* GET /api/search, for a query drawn from queries
SearchOver(queries) ==
  /\ listening
  /\ \E query \in queries :
        last' = [op |-> "search", req |-> query,
                 res |-> SearchResponse(busRoutes, busLocations, query)]
  /\ UNCHANGED <<pageVars, busRoutes, ingestSpeed, busLocations, insertion, now, listening, timers, nextFire, ops, advances, hist>>

Search == SearchOver(Queries)

SearchReads == SearchOver(ReadQueries)

SearchWide == SearchOver(WideQueries)

\* the interval callback of simulateBusMovement runs
Tick ==
  /\ timers > 0
  /\ now >= nextFire
  /\ ops < MaxOps
  /\ \E draws \in DrawsFor(busLocations) :
        busLocations' = SimulatedStore(busLocations, draws, now)
  /\ nextFire' = now + Interval
  /\ ops' = ops + 1
  /\ last' = [op |-> "tick"]
  /\ hist' = [k \in DOMAIN hist |->
               IF busLocations[k].status = "active" THEN [hist[k] EXCEPT !.by = "tick"] ELSE hist[k]]
  /\ UNCHANGED <<pageVars, busRoutes, ingestSpeed, insertion, now, listening, timers, advances>>

\* the page is opened for a bus: the first render and its two effects
MountPage ==
  /\ ~mounted
  /\ \E location \in BusLocations :
        /\ currentLocation' = location
        /\ effectLocation' = location
        /\ markerRef' = location
  /\ mounted' = TRUE
  /\ lastUpdate' = now
  /\ last' = [op |-> "mount"]
  /\ UNCHANGED <<busRoutes, busLocations, insertion, now, listening, timers, nextFire, ops,
                 advances, hist, ingestSpeed>>

\* updateLocation, from the response of its fetch on
Poll ==
  /\ mounted
  /\ \E response \in PollResponses :
        /\ last' = [op |-> "poll", res |-> response]
        /\ IF PollSkipped(response, effectLocation)
             THEN UNCHANGED <<currentLocation, lastUpdate, markerRef>>
           ELSE /\ markerRef' = IF markerRef.has THEN response.location ELSE markerRef
                /\ currentLocation' = response.location
                /\ lastUpdate' = now
  /\ UNCHANGED <<busRoutes, busLocations, insertion, now, listening, timers, nextFire, ops,
                 advances, hist, ingestSpeed, mounted, effectLocation>>

Next ==
  \/ Advance
  \/ Listen
  \/ PostLocation
  \/ GetLocation
  \/ Tick

\* ingests, timer callbacks and reads of single records
Spec == Init /\ [][Next]_vars

NextSearch ==
  \/ Advance
  \/ Listen
  \/ PostLocationSearch
  \/ Search
  \/ Tick

\* ingests, timer callbacks and searches
SpecSearch == Init /\ [][NextSearch]_vars

NextMatch ==
  \/ Listen
  \/ SearchWide

\* searches over the seeded store, for every pair of the query terms
SpecMatch == Init /\ [][NextMatch]_vars

NextReads ==
  \/ Advance
  \/ Listen
  \/ PostLocationReads
  \/ GetLocation
  \/ GetLocations
  \/ GetRoutes
  \/ SearchReads
  \/ Tick

\* ingests and timer callbacks, with every read handler
SpecReads == Init /\ [][NextReads]_vars

NextLive ==
  \/ Advance
  \/ MountPage
  \/ Poll

\* the live tracking page handling poll responses as time passes
SpecLive == Init /\ [][NextLive]_vars

(***************************************************************************)
(* Properties.                                                             *)
(***************************************************************************)
\* the step is a run of the interval callback
TickStep == last'.op = "tick" /\ ops' = ops + 1

\* the step is an ingest that was accepted
AcceptedIngestStep == last'.op = "ingest" /\ last'.res.status = 200 /\ ops' = ops + 1

\* 0.0005 degrees and 5 km/h, in fixed point
JitterBound == Fin(Scale \div 2000)
SpeedJitterBound == Fin(5 * Scale)

\* C1: in every reachable state every record has status "active" if and
\* only if its stored speed is > 0.
C1_StatusIffSpeedPositive ==
  \A k \in DOMAIN busLocations :
    (busLocations[k].status = "active") <=> NumGT(busLocations[k].speed, Fin(0))

\* C2: a get_one for v handled right after an accepted ingest for v answers
\* with device_id v, the parsed lat, lon and speed of the request, and
\* status "active" when the parsed speed is > 0 and "stopped" otherwise.
C2_GetOneAfterIngest ==
  [][ ( /\ last.op = "ingest"
        /\ last.res.status = 200
        /\ last'.op = "get_one"
        /\ last'.req = last.req.device_id.id )
      => ( /\ last'.res.status = 200
           /\ last'.res.data.device_id = last.req.device_id.id
           /\ last'.res.data.lat = parseFloat(last.req.lat)
           /\ last'.res.data.lon = parseFloat(last.req.lon)
           /\ last'.res.data.speed = ParsedSpeed(last.req.speed)
           /\ last'.res.data.status =
                IF NumGT(ParsedSpeed(last.req.speed), Fin(0)) THEN "active" ELSE "stopped" )
    ]_vars

\* a get_one for BUS_101 answered "active" when the only write since the
\* seeding was an accepted ingest for BUS_101
C2_Witness ==
  /\ last.op = "get_one"
  /\ last.req = "BUS_101"
  /\ last.res.status = 200
  /\ last.res.data.status = "active"
  /\ ops = 1
  /\ hist["BUS_101"] = [by |-> "ingest", ingests |-> 1]

\* C3: an ingest that answers with an error leaves the whole store unchanged.
C3_RejectedIngestKeepsStore ==
  [][ (last'.op = "ingest" /\ last'.res.status = 400) => busLocations' = busLocations ]_vars

\* an ingest for a vehicle that has a record was rejected for its coordinates
C3_Witness ==
  /\ last.op = "ingest"
  /\ last.res.status = 400
  /\ last.res.error = "Invalid latitude or longitude values"
  /\ MapHas(busLocations, last.req.device_id.id)
  /\ hist[last.req.device_id.id].by = "ingest"

\* C4: an accepted ingest for v that follows an accepted ingest for v leaves
\* for v exactly the record built from the second request: every field is
\* the one the second request determines.
C4_SecondIngestOverwrites ==
  [][ ( /\ AcceptedIngestStep
        /\ last.op = "ingest"
        /\ last.res.status = 200
        /\ last'.req.device_id = last.req.device_id )
      => busLocations'[last'.req.device_id.id] =
           [ device_id |-> last'.req.device_id.id,
             lat |-> parseFloat(last'.req.lat),
             lon |-> parseFloat(last'.req.lon),
             speed |-> ParsedSpeed(last'.req.speed),
             route_id |-> FindRoute(busRoutes, last'.req.device_id.id),
             updated |-> now',
             status |-> IF NumGT(ParsedSpeed(last'.req.speed), Fin(0)) THEN "active" ELSE "stopped" ]
    ]_vars

\* two accepted ingests for BUS_101 were the only writes, the first with a
\* speed and the second without
C4_Witness ==
  /\ last.op = "ingest"
  /\ last.res.status = 200
  /\ last.req.speed = Undefined
  /\ ops = 2
  /\ hist["BUS_101"] = [by |-> "ingest", ingests |-> 2]

\* C5: a run of the interval callback leaves every "stopped" record equal in
\* all fields and neither adds nor removes a key of the store.
C5_TickKeepsStopped ==
  [][ TickStep =>
        /\ DOMAIN busLocations' = DOMAIN busLocations
        /\ \A k \in DOMAIN busLocations :
              busLocations[k].status = "stopped" => busLocations'[k] = busLocations[k]
    ]_vars

\* the callback ran at a later time than the seeding, updated an active
\* record and met stopped ones
C5_Witness ==
  /\ last.op = "tick"
  /\ \E k \in DOMAIN busLocations : hist[k].by = "tick"
  /\ \E k \in DOMAIN busLocations :
        busLocations[k].status = "stopped" /\ busLocations[k].updated < now

\* C6: after a run of the interval callback every record that was "active"
\* has a strictly later updated time, lat and lon within 0.0005 of their
\* values before, and speed = max(0, old speed + d) for some d in [-5, 5].
C6_TickPerturbsActive ==
  [][ TickStep =>
        \A k \in DOMAIN busLocations :
          busLocations[k].status = "active" =>
            LET old == busLocations[k]
                new == busLocations'[k]
            IN /\ new.updated > old.updated
               /\ NumLE(MathAbs(NumSub(new.lat, old.lat)), JitterBound)
               /\ NumLE(MathAbs(NumSub(new.lon, old.lon)), JitterBound)
               /\ \/ /\ NumGT(new.speed, Fin(0))
                     /\ \/ NumLE(MathAbs(NumSub(new.speed, old.speed)), SpeedJitterBound)
                        \/ (new.speed = PosInf /\ old.speed = PosInf)
                  \/ /\ new.speed = Fin(0)
                     /\ NumLE(old.speed, SpeedJitterBound)
    ]_vars

\* term occurs in name when letter case is ignored: at some offset every
\* character of term equals the character of name there, both in lowercase
ContainsIgnoringCase(name, term) ==
  \E k \in 0..(Len(name) - Len(term)) :
    \A j \in 1..Len(term) : LowerChar(name[k + j]) = LowerChar(term[j])

\* the route has a stop whose name contains from and one whose name contains to
HasBothStops(route, from, to) ==
  /\ \E i \in 1..Len(route.stops) : ContainsIgnoringCase(route.stops[i].name, from)
  /\ \E i \in 1..Len(route.stops) : ContainsIgnoringCase(route.stops[i].name, to)

\* the position of the route with this id in the registry
RegistryPosition(id) == CHOOSE p \in 1..Len(busRoutes) : busRoutes[p].id = id

\* C7: search(from, to) returns exactly the routes that have a stop whose
\* lowercase name contains lowercase(from) and a stop whose lowercase name
\* contains lowercase(to), in registry order; search(to, from) returns the
\* same routes, and from = to is not rejected.
C7_SearchMatchesBothStops ==
  (last.op = "search") =>
    LET from == last.req.from
        to == last.req.to
    IN /\ (QueryTruthy(from) /\ from = to) => last.res.status = 200
       /\ (last.res.status = 200) =>
            LET data == last.res.data
            IN /\ {data[i].route_id : i \in 1..Len(data)} =
                    {busRoutes[p].id : p \in {q \in 1..Len(busRoutes) : HasBothStops(busRoutes[q], from.s, to.s)}}
               /\ \A i, j \in 1..Len(data) :
                     i < j => RegistryPosition(data[i].route_id) < RegistryPosition(data[j].route_id)
               /\ matchingRoutes(busRoutes, to.s, from.s) = matchingRoutes(busRoutes, from.s, to.s)

\* a search from "Airport" to "city", the stops in reverse route order,
\* returned the City Center - Airport route
C7_Witness ==
  /\ last.op = "search"
  /\ last.req = Query(AirportCap, City)
  /\ last.res.status = 200
  /\ Len(last.res.data) = 1
  /\ last.res.data[1].route_id = "ROUTE_001"

\* C8: every route of a search result lists one entry per assigned vehicle,
\* in the order of the route's vehicle list; the eta of a vehicle that has
\* a record is the ETA from its stored lat, lon and speed to the last stop
\* of the route, and the eta is "Unknown" exactly when it has no record.
C8_SearchBusesAndEta ==
  (last.op = "search" /\ last.res.status = 200) =>
    \A i \in 1..Len(last.res.data) :
      LET route == busRoutes[RegistryPosition(last.res.data[i].route_id)]
          buses == last.res.data[i].buses
          dest == route.stops[Len(route.stops)]
      IN /\ Len(buses) = Len(route.buses)
         /\ \A j \in 1..Len(buses) :
               /\ buses[j].id = route.buses[j]
               /\ MapHas(busLocations, buses[j].id) =>
                    buses[j].eta = calculateETA(busLocations[buses[j].id].lat,
                                                busLocations[buses[j].id].lon,
                                                dest.lat, dest.lon,
                                                busLocations[buses[j].id].speed)
               /\ (buses[j].eta = UnknownText) <=> ~MapHas(busLocations, buses[j].id)

\* a search returned a minutes text for a vehicle whose record the interval
\* callback had moved
C8_Witness ==
  /\ last.op = "search"
  /\ last.res.status = 200
  /\ \E i \in 1..Len(last.res.data) :
        \E j \in 1..Len(last.res.data[i].buses) :
          LET bus == last.res.data[i].buses[j]
          IN /\ hist[bus.id].by = "tick"
             /\ bus.eta \notin {StoppedText, ArrivedText, UnknownText}

\* the text is decimal digits followed by " min"
IsMinutesText(text) ==
  /\ Len(text) > 4
  /\ SubSeq(text, Len(text) - 3, Len(text)) = <<" ", "m", "i", "n">>
  /\ \A i \in 1..(Len(text) - 4) : IsDigit(text[i])

\* C9: the ETA is "Stopped" if and only if the speed is exactly 0; for any
\* other speed it is "Arrived" if and only if
\* round(distance / speed * 60) <= 0, and a minutes value otherwise.
C9_EtaCases ==
  (last.op = "search" /\ last.res.status = 200) =>
    \A i \in 1..Len(last.res.data) :
      \A j \in 1..Len(last.res.data[i].buses) :
        LET bus == last.res.data[i].buses[j]
            route == busRoutes[RegistryPosition(last.res.data[i].route_id)]
            dest == route.stops[Len(route.stops)]
            speed == bus.location.speed
            minutes == EtaMinutes(calculateDistance(bus.location.lat, bus.location.lon,
                                                    dest.lat, dest.lon), speed)
            roundedAtMostZero == ~minutes.nan /\ minutes.n <= 0
        IN MapHas(busLocations, bus.id) =>
             /\ (bus.eta = StoppedText) <=> (speed = Fin(0))
             /\ (speed # Fin(0)) =>
                  /\ (bus.eta = ArrivedText) <=> roundedAtMostZero
                  /\ ~roundedAtMostZero => IsMinutesText(bus.eta)

\* C10: an ingest is accepted only when lat and lon both parse to finite
\* numbers, so no record has a non-finite lat or lon.
C10_AcceptedOnlyFinite ==
  /\ (last.op = "ingest" /\ last.res.status = 200) =>
        (isFinite(parseFloat(last.req.lat)) /\ isFinite(parseFloat(last.req.lon)))
  /\ \A k \in DOMAIN busLocations :
        isFinite(busLocations[k].lat) /\ isFinite(busLocations[k].lon)

\* C11: in every reachable state every record has speed >= 0, whatever
\* speeds the ingests were given and however many times the interval
\* callback ran.
C11_SpeedNonNegative ==
  \A k \in DOMAIN busLocations : NumLE(Fin(0), busLocations[k].speed)

\* the ids some route of the registry lists as its buses
ListedBuses ==
  UNION {{busRoutes[p].buses[i] : i \in 1..Len(busRoutes[p].buses)} : p \in 1..Len(busRoutes)}

\* an ingest for the id was accepted since the start
Ingested(id) == MapHas(hist, id) /\ hist[id].ingests > 0

\* C12 as stated: a record for an id exists only after the first ingest or
\* callback write for that id, and get_one for an id with no such write
\* since the start answers Not Found.
C12_RecordOnlyAfterWrite ==
  /\ \A k \in DOMAIN busLocations : hist[k].by # "seed"
  /\ (last.op = "get_one" /\ ~(MapHas(hist, last.req) /\ hist[last.req].by # "seed"))
       => last.res.status = 404

\* C12: a record for an id exists exactly when a route of the registry
\* lists the id (the start seeds it at the route's first stop) or an ingest
\* for the id was accepted; get_one answers Not Found exactly for the other
\* ids, and the interval callback creates no record.
C12_RecordSeededOrIngested ==
  /\ DOMAIN busLocations = ListedBuses \cup {id \in DOMAIN hist : Ingested(id)}
  /\ (last.op = "get_one") =>
       ((last.res.status = 404) <=> (last.req \notin ListedBuses /\ ~Ingested(last.req)))

\* get_one for BUS_999 answered Not Found after writes to other records, and
\* the seeded record of BUS_201 is still the one from the start
C12_Witness ==
  /\ last.op = "get_one"
  /\ last.req = "BUS_999"
  /\ last.res.status = 404
  /\ hist["BUS_201"].by = "seed"
  /\ \E k \in DOMAIN hist : hist[k].by = "tick"

\* C13: the interval callback never runs concurrently with itself: one
\* interval timer is started for the whole run of the process (none before
\* the server listens, one from then on), every run of the callback belongs
\* to that timer and visits every record within its own step, and the next
\* run is not due before a full interval has passed.
C13_SingleTimerOneTickAtATime ==
  /\ [](timers = IF listening THEN 1 ELSE 0)
  /\ [][ TickStep =>
           /\ timers = 1
           /\ nextFire' = now + Interval
           /\ nextFire' > nextFire
           /\ DOMAIN busLocations' = DOMAIN busLocations
           /\ \A k \in DOMAIN busLocations :
                 busLocations[k].status = "active" => busLocations'[k].updated = now'
       ]_vars

\* the callback ran a second time, one interval after its first run, and the
\* process still has one timer
C13_Witness ==
  /\ last.op = "tick"
  /\ ops = 2
  /\ now = 2 * Interval
  /\ nextFire = 3 * Interval
  /\ timers = 1

\* the records a response of a read handler carries, as pairs of the vehicle
\* id and the record reported for it
ReportedRecords ==
  IF last.op = "get_one" /\ last.res.status = 200
    THEN {<<last.req, last.res.data>>}
  ELSE IF last.op = "get_all"
    THEN {<<last.res.data[i].device_id, last.res.data[i]>> : i \in 1..Len(last.res.data)}
  ELSE IF last.op = "list_routes" \/ (last.op = "search" /\ last.res.status = 200)
    THEN LET data == last.res.data
             entries == UNION {{data[p].buses[i] : i \in 1..Len(data[p].buses)} : p \in 1..Len(data)}
         IN {<<e.id, e.location>> : e \in {x \in entries : MapHas(busLocations, x.id)}}
  ELSE {}

\* the step wrote the whole record of k: an accepted ingest for k stored the
\* record it answers with, stamped with the time of the request, or the
\* interval callback replaced lat, lon, speed and updated of an active
\* record together, from one triple of random numbers
WroteWhole(k) ==
  \/ /\ AcceptedIngestStep
     /\ last'.req.device_id.id = k
     /\ busLocations'[k] = last'.res.data
     /\ busLocations'[k].updated = now'
  \/ /\ TickStep
     /\ MapHas(busLocations, k)
     /\ busLocations[k].status = "active"
     /\ \E draw \in Draws :
           busLocations'[k] =
             [ device_id |-> busLocations[k].device_id,
               lat |-> NumAdd(busLocations[k].lat, PositionChange(draw[1])),
               lon |-> NumAdd(busLocations[k].lon, PositionChange(draw[2])),
               speed |-> MathMax(Fin(0), NumAdd(busLocations[k].speed, SpeedChange(draw[3]))),
               route_id |-> busLocations[k].route_id,
               updated |-> now',
               status |-> busLocations[k].status ]

\* C14: under any interleaving of ingests, runs of the interval callback and
\* reads, every record that get_one, get_all, list_routes or search reports
\* is, in all its fields, the record the store holds for that vehicle, and
\* every step that changes or creates a record writes it whole; so no read
\* reports a record with some of lat, lon, speed and updated from before a
\* write and others from after it.
C14_ReadsSeeWholeRecords ==
  /\ [](\A e \in ReportedRecords : e[2] = busLocations[e[1]])
  /\ [](last.op = "get_all" =>
          {last.res.data[i].device_id : i \in 1..Len(last.res.data)} = DOMAIN busLocations)
  /\ [][ \A k \in DOMAIN busLocations' :
           (~MapHas(busLocations, k) \/ busLocations'[k] # busLocations[k]) => WroteWhole(k)
       ]_vars

\* a search reported BUS_101 right after the interval callback had rewritten
\* the record an ingest stored for it
C14_Witness ==
  /\ last.op = "search"
  /\ last.res.status = 200
  /\ hist["BUS_101"] = [by |-> "tick", ingests |-> 1]
  /\ busLocations["BUS_101"].updated = Interval
  /\ <<"BUS_101", busLocations["BUS_101"]>> \in ReportedRecords

\* the records one run of the interval callback at time t can leave for a
\* record it finds as old
TickOutcomes(old, t) ==
  IF old.status = "active"
    THEN { [ device_id |-> old.device_id,
             lat |-> NumAdd(old.lat, PositionChange(draw[1])),
             lon |-> NumAdd(old.lon, PositionChange(draw[2])),
             speed |-> MathMax(Fin(0), NumAdd(old.speed, SpeedChange(draw[3]))),
             route_id |-> old.route_id,
             updated |-> t,
             status |-> old.status ] : draw \in Draws }
  ELSE {old}

\* C15: no update is lost between an ingest and the interval callback for
\* the same vehicle: a run of the callback that follows an accepted ingest
\* for v leaves for v a record computed from the record that ingest stored,
\* and an accepted ingest for v that follows a run of the callback leaves
\* for v the record of the ingest.
C15_NoLostUpdate ==
  [][ /\ ( /\ TickStep
           /\ last.op = "ingest"
           /\ last.res.status = 200 )
         => busLocations'[last.req.device_id.id] \in TickOutcomes(last.res.data, now')
      /\ ( /\ AcceptedIngestStep
           /\ last.op = "tick" )
         => busLocations'[last'.req.device_id.id] = last'.res.data
    ]_vars

\* the interval callback ran right when its interval had passed and rewrote
\* the record of BUS_101, which one accepted ingest had stored
C15_Witness ==
  /\ last.op = "tick"
  /\ ops = 2
  /\ now = Interval
  /\ hist["BUS_101"] = [by |-> "tick", ingests |-> 1]
  /\ busLocations["BUS_101"].updated = Interval
  /\ busLocations["BUS_101"].lat # SeedLocations(sampleRoutes, EmptyMap, 0)["BUS_101"].lat

\* the id of the first route, in the order of the registry, whose bus list
\* contains id; null when no route lists it
FirstListing(routes, id) ==
  LET listing == {p \in 1..Len(routes) : \E i \in 1..Len(routes[p].buses) : routes[p].buses[i] = id}
  IN IF listing = {} THEN Null
     ELSE routes[CHOOSE p \in listing : \A q \in listing : p <= q].id

\* a registry for the route lookup in which the second route lists, before
\* its own buses, every bus of the first route too
SharedBusRoutes ==
  <<busRoutes[1], [busRoutes[2] EXCEPT !.buses = busRoutes[1].buses \o busRoutes[2].buses]>>

C17_FiniteAfterTick ==
  (last.op = "tick") =>
    \A k \in DOMAIN busLocations :
      /\ isFinite(busLocations[k].lat)
      /\ isFinite(busLocations[k].lon)
      /\ isFinite(busLocations[k].speed)

\* the request names a vehicle and carries a lat and a lon that parse to
\* numbers
ValidIdAndPosition(body) ==
  /\ body.device_id # IdUndefined
  /\ body.device_id.id # ""
  /\ body.lat # Undefined
  /\ body.lon # Undefined
  /\ ~isNaN(parseFloat(body.lat))
  /\ ~isNaN(parseFloat(body.lon))

\* C18: an ingest whose speed is absent or does not parse to a number, and
\* whose vehicle id, lat and lon are valid, does not fail: it answers 200 and
\* stores the record with speed 0 and status "stopped".
C18_SpeedDefaultsToZero ==
  ( /\ last.op = "ingest"
    /\ ValidIdAndPosition(last.req)
    /\ isNaN(parseFloat(last.req.speed)) )
  => /\ last.res.status = 200
     /\ last.res.data.speed = Fin(0)
     /\ last.res.data.status = "stopped"
     /\ busLocations[last.req.device_id.id] = last.res.data

\* an ingest for BUS_999 with the speed "fast" was accepted after an ingest
\* with a speed had made BUS_101 active
C18_Witness ==
  /\ last.op = "ingest"
  /\ last.req.device_id = IdStr("BUS_999")
  /\ last.req.speed = JsStr(<<"f", "a", "s", "t">>)
  /\ last.res.status = 200
  /\ busLocations["BUS_999"].speed = Fin(0)
  /\ busLocations["BUS_101"].status = "active"

\* the step is the handling of a read request
ReadStep == last'.op \in {"get_one", "get_all", "list_routes", "search"}

\* C19: get_one, get_all, list_routes and search, whether they succeed or
\* answer Not Found or a missing parameter, leave every record of the store
\* and every route of the registry as they were.
C19_ReadsChangeNothing ==
  [][ ReadStep =>
        /\ busLocations' = busLocations
        /\ insertion' = insertion
        /\ busRoutes' = busRoutes
    ]_vars

\* a search was refused for its missing parameter while the store held a
\* record the interval callback had rewritten and one an ingest had added
C19_Witness ==
  /\ last.op = "search"
  /\ last.res.status = 400
  /\ MapHas(busLocations, "BUS_999")
  /\ \E k \in DOMAIN hist : hist[k].by = "tick"

\* C20: no operation removes a record: every step keeps every vehicle id
\* the store has, a get_one for an id that has a record succeeds, and the
\* set of ids grows only by an accepted ingest for a new id, which adds that
\* id alone.
C20_RecordsNeverRemoved ==
  /\ [][ /\ DOMAIN busLocations \subseteq DOMAIN busLocations'
         /\ (DOMAIN busLocations' # DOMAIN busLocations) =>
               /\ AcceptedIngestStep
               /\ DOMAIN busLocations' = DOMAIN busLocations \cup {last'.req.device_id.id}
     ]_vars
  /\ []((last.op = "get_one" /\ MapHas(busLocations, last.req)) => last.res.status = 200)

\* get_one for BUS_999 succeeded after the ingest that created its record,
\* a second write to the store and a later time
C20_Witness ==
  /\ last.op = "get_one"
  /\ last.req = "BUS_999"
  /\ last.res.status = 200
  /\ ops = 2
  /\ hist["BUS_999"].ingests = 1
  /\ busLocations["BUS_999"].updated < now

\* data is the list of the routes in registry order, each with its id, name
\* and stops and with one entry per bus id of the route, in list order, that
\* carries the record map holds for the bus, and null when map holds none
JoinsRoutesWith(data, map) ==
  /\ Len(data) = Len(busRoutes)
  /\ \A p \in 1..Len(busRoutes) :
        /\ data[p].id = busRoutes[p].id
        /\ data[p].name = busRoutes[p].name
        /\ data[p].stops = busRoutes[p].stops
        /\ Len(data[p].buses) = Len(busRoutes[p].buses)
        /\ \A i \in 1..Len(busRoutes[p].buses) :
              /\ data[p].buses[i].id = busRoutes[p].buses[i]
              /\ IF busRoutes[p].buses[i] \in DOMAIN map
                   THEN data[p].buses[i].location = map[busRoutes[p].buses[i]]
                 ELSE data[p].buses[i].location = Null

\* the store without the record of BUS_102
WithoutBus102 == [k \in DOMAIN busLocations \ {"BUS_102"} |-> busLocations[k]]

\* C21: list_routes returns every route of the registry in registry order
\* and, for each route, one entry per bus id of the route, in list order,
\* with the record the store holds for the bus at that time; over a store
\* that lacks the record of a listed bus the entry of that bus carries null.
C21_ListRoutesJoinsStore ==
  (last.op = "list_routes") =>
    /\ last.res.status = 200
    /\ JoinsRoutesWith(last.res.data, busLocations)
    /\ JoinsRoutesWith(GetRoutesResponse(busRoutes, WithoutBus102).data, WithoutBus102)

\* list_routes answered after an ingest for BUS_101 and a run of the interval
\* callback that rewrote its record
C21_Witness ==
  /\ last.op = "list_routes"
  /\ hist["BUS_101"] = [by |-> "tick", ingests |-> 1]
  /\ last.res.data[1].buses[1].location.updated = Interval
  /\ last.res.data[2].buses[1].location.updated = 0

\* the query parameter is missing or is the empty string
MissingOrEmpty(x) == x.t = "undefined" \/ (x.t = "string" /\ Len(x.s) = 0)

\* C22: search answers with the missing-parameter error whenever from or to
\* is missing or empty, and with a result list, which may be empty, for
\* every pair of non-empty strings.
C22_SearchInvalidQuery ==
  (last.op = "search") =>
    IF MissingOrEmpty(last.req.from) \/ MissingOrEmpty(last.req.to)
      THEN /\ last.res.status = 400
           /\ last.res.error = "Missing from or to parameter"
    ELSE /\ last.res.status = 200
         /\ Len(last.res.data) \in 0..Len(busRoutes)

\* a search with an empty from parameter and a to parameter that matches a
\* stop was answered with the error
C22_Witness ==
  /\ last.op = "search"
  /\ last.req.from = EmptyString
  /\ last.req.to = AirportCap
  /\ last.res.status = 400

\* every bus entry of the search result that has a location and whose speed
\* is not 0 and whose rounded minutes n are > 0 has the ETA text made of the
\* decimal digits of n and the given unit
EtaTextHasUnit(unit) ==
  (last.op = "search" /\ last.res.status = 200) =>
    \A i \in 1..Len(last.res.data) :
      \A j \in 1..Len(last.res.data[i].buses) :
        LET bus == last.res.data[i].buses[j]
            route == busRoutes[RegistryPosition(last.res.data[i].route_id)]
            dest == route.stops[Len(route.stops)]
            minutes == EtaMinutes(calculateDistance(bus.location.lat, bus.location.lon,
                                                    dest.lat, dest.lon), bus.location.speed)
        IN ( /\ MapHas(busLocations, bus.id)
             /\ bus.location.speed # Fin(0)
             /\ ~minutes.nan
             /\ minutes.n > 0 )
           => bus.eta = DigitsOf(minutes.n) \o unit

\* a bus entry of the City Center - Airport route located at the City Center
\* stop with speed 30 has the given ETA text
CityCenterAt30Gives(text) ==
  (last.op = "search" /\ last.res.status = 200) =>
    \A i \in 1..Len(last.res.data) :
      \A j \in 1..Len(last.res.data[i].buses) :
        LET bus == last.res.data[i].buses[j]
        IN ( /\ MapHas(busLocations, bus.id)
             /\ last.res.data[i].route_id = "ROUTE_001"
             /\ bus.location.lat = Fin(11156300)
             /\ bus.location.lon = Fin(77593200)
             /\ bus.location.speed = Fin(30 * Scale) )
           => bus.eta = text

\* C23 as stated: when the speed is not 0 and the rounded minutes n are > 0
\* the ETA is the text "<n> minutes"; a bus at City Center at 30 km/h on the
\* City Center - Airport route gets "9 minutes".
C23_EtaMinutesText ==
  /\ EtaTextHasUnit(<<" ", "m", "i", "n", "u", "t", "e", "s">>)
  /\ CityCenterAt30Gives(<<"9", " ", "m", "i", "n", "u", "t", "e", "s">>)

\* C23: when the speed is not 0 and the rounded minutes n are > 0 the ETA is
\* the text "<n> min"; a bus at City Center at 30 km/h on the City Center -
\* Airport route gets "9 min".
C23_EtaMinText ==
  /\ EtaTextHasUnit(<<" ", "m", "i", "n">>)
  /\ CityCenterAt30Gives(<<"9", " ", "m", "i", "n">>)

\* a search reported BUS_101 at the City Center stop with speed 30, as an
\* ingest had stored it, with a minutes text
C23_Witness ==
  /\ last.op = "search"
  /\ last.res.status = 200
  /\ Len(last.res.data) > 0
  /\ last.res.data[1].route_id = "ROUTE_001"
  /\ last.res.data[1].buses[1].id = "BUS_101"
  /\ last.res.data[1].buses[1].location.lat = Fin(11156300)
  /\ last.res.data[1].buses[1].location.speed = Fin(30 * Scale)
  /\ hist["BUS_101"].by = "ingest"
  /\ IsMinutesText(last.res.data[1].buses[1].eta)

\* C24: in every search result a bus entry that has a location has the ETA
\* "Stopped" if and only if the status of that location is "stopped".
C24_EtaStoppedIffStatusStopped ==
  (last.op = "search" /\ last.res.status = 200) =>
    \A i \in 1..Len(last.res.data) :
      \A j \in 1..Len(last.res.data[i].buses) :
        LET bus == last.res.data[i].buses[j]
        IN MapHas(busLocations, bus.id) =>
             ((bus.eta = StoppedText) <=> (bus.location.status = "stopped"))

\* the most recent accepted ingest for k had a parsed speed > 0
LastIngestMoving(k) == MapHas(ingestSpeed, k) /\ NumGT(ingestSpeed[k], Fin(0))

PollStep == last'.op = "poll"

\* the fetched position differs, in lat or in lon, by at least 0.000001 from
\* the displayed one (a page that displays no location differs from any)
DiffersFromDisplayed(location) ==
  \/ ~currentLocation.has
  \/ NumLE(MinChange, MathAbs(NumSub(location.lat, currentLocation.lat)))
  \/ NumLE(MinChange, MathAbs(NumSub(location.lon, currentLocation.lon)))

\* C26: a poll of the live tracking page changes the displayed location and
\* the last-update time only if the fetched lat or lon differs by at least
\* 0.000001 from the location displayed at that time; a poll that returns
\* the position displayed changes nothing.
C26_PollUpdatesOnlyOnChange ==
  [][ PollStep =>
        /\ (currentLocation' # currentLocation \/ lastUpdate' # lastUpdate \/ markerRef' # markerRef)
              => (last'.res.ok /\ DiffersFromDisplayed(last'.res.location))
        /\ (last'.res.ok /\ ~DiffersFromDisplayed(last'.res.location))
              => UNCHANGED <<currentLocation, lastUpdate, markerRef>>
    ]_vars

====
